---------------------------- MODULE Spec2Model ----------------------------
(***************************************************************************)
(* Job-portal backend: Users, Jobs and Applications collections and the    *)
(* HTTP request handlers that read and write them.  Every storage call     *)
(* (await Model.xxx) of a handler is one atomic step; the synchronous code *)
(* between two storage calls belongs to the step that precedes it.         *)
(* A request occupies a slot r; several slots run concurrently.           *)
(***************************************************************************)
EXTENDS Integers, FiniteSets, Sequences, TLC

\* ------------------------------------------------------------------ bounds
MaxJobs == 2
MaxApps == 3
NumReq  == 2
MaxUsers  == 3
MaxEmails == 2
NumProc   == 2
MaxSalary == 2

JobIds  == 1..MaxJobs
AppIds  == 1..MaxApps
Reqs    == 1..NumReq
Procs   == 1..NumProc

\* ------------------------------------------------------------ the schemas
Roles       == {"admin", "employer", "candidate"}
JobStatuses == {"Active", "Inactive"}

\* The user population the store holds when the model starts: two admins,
\* two employers, two candidates, nobody banned, each with an email of
\* their own (emails are numbered).
InitUsers ==
  [u \in 1..6 |->
     [email |-> u,
      role |-> IF u <= 2 THEN "admin" ELSE IF u <= 4 THEN "employer" ELSE "candidate",
      isBanned |-> FALSE]]

UserIds == DOMAIN InitUsers

VARIABLES
  users,      \* Users collection: _id -> [email, role, isBanned]
  jobs,       \* Jobs collection: _id -> [createdBy, jobStatus, salaryRange]
  apps,       \* Applications collection: _id -> [jobId, candidateId, applicationStatus]
  nextUserId, \* ObjectIds are never reused: next fresh User _id
  nextJobId,  \* next fresh Job _id
  nextAppId,  \* next fresh Application _id
  req,        \* request slots
  proc        \* server processes: startup position and environment

vars == <<users, jobs, apps, nextUserId, nextJobId, nextAppId, req, proc>>
db   == <<users, jobs, apps, nextUserId, nextJobId, nextAppId>>

\* ------------------------------------------------------- collection helpers
Without(f, ids) == [x \in DOMAIN f \ ids |-> f[x]]
With(f, id, doc) == [x \in DOMAIN f \cup {id} |-> IF x = id THEN doc ELSE f[x]]

EmptyBody == [x \in {} |-> 0]

\* ------------------------------------------------------------ request slots
NoToken == [kind |-> "none", userId |-> 0]

\* thrown: the name of the error a storage call of the request threw;
\* errors: the rules the message and the errors list of a ValidationError
\* response name
IdleReq ==
  [pc |-> "idle", op |-> "none", token |-> NoToken, user |-> 0, role |-> "none",
   jobId |-> 0, appId |-> 0, userId |-> 0, body |-> EmptyBody,
   jobIds |-> {}, modified |-> FALSE, out |-> {}, status |-> 0,
   thrown |-> "none", errors |-> {}]

\* ------------------------------------------------------------ server processes
\* a process that has not called startServer yet; keepAlive: a client
\* holds a connection to the process open between its requests
OffProc == [pc |-> "off", adminEmail |-> 0, created |-> 0, keepAlive |-> FALSE]

\* a process whose handshake found an admin
ReadyProc == [pc |-> "ready", adminEmail |-> 0, created |-> 0, keepAlive |-> FALSE]

\* the server takes new connections
Open(p) == proc[p].pc \in {"handshake_findOne", "handshake_save", "ready"}

\* server.listen(PORT, callback): the server accepts connections from the
\* moment the callback is called, the handshake runs inside the callback;
\* after server.close() it takes no new connection, and requests still
\* reach it on a connection that is kept open
Listening(p) == Open(p) \/ (proc[p].pc = "closing" /\ proc[p].keepAlive)

Accepting == \E p \in Procs : Listening(p)

\* a slot takes a request when a server is listening
Free(r) == req[r].pc = "idle" /\ Accepting

\* res.status(code).json(...) in the handler, or next(err) reaching
\* errorHandler: the request is answered, its locals are dropped
Respond(q, code) == [q EXCEPT !.pc = "done", !.status = code,
                                !.jobIds = {}, !.modified = FALSE]

\* ------------------------------------------------------------- middlewares
\* a bearer token: absent, badly signed, expired, or valid for a user id
BadTokens == {[kind |-> k, userId |-> 0] : k \in {"none", "invalid", "expired"}}
TokensOf(S) == {[kind |-> "valid", userId |-> u] : u \in S}

\* authenticate without the ban check
authenticateNoBanCheck(token, us) ==
  IF token.kind # "valid" THEN [status |-> 401, user |-> 0, role |-> "none"]
  ELSE IF token.userId \notin DOMAIN us
       THEN [status |-> 401, user |-> 0, role |-> "none"]
  ELSE [status |-> 0, user |-> token.userId, role |-> us[token.userId].role]

\* authenticate that lets the token of a user who is not stored through
authenticateNoUserCheck(token, us) ==
  IF token.kind # "valid" THEN [status |-> 401, user |-> 0, role |-> "none"]
  ELSE IF token.userId \notin DOMAIN us
       THEN [status |-> 0, user |-> token.userId, role |-> "none"]
  ELSE IF us[token.userId].isBanned
       THEN [status |-> 401, user |-> 0, role |-> "none"]
  ELSE [status |-> 0, user |-> token.userId, role |-> us[token.userId].role]

\* authenticate: verify the token, load the user, refuse absent or banned
authenticate(token, us) ==
  IF token.kind # "valid" THEN [status |-> 401, user |-> 0, role |-> "none"]
  ELSE IF token.userId \notin DOMAIN us
       THEN [status |-> 401, user |-> 0, role |-> "none"]
  ELSE IF us[token.userId].isBanned
       THEN [status |-> 401, user |-> 0, role |-> "none"]
  ELSE [status |-> 0, user |-> token.userId, role |-> us[token.userId].role]

\* authorize(...roles)
authorize(roles, p) ==
  IF p.user = 0 THEN 401
  ELSE IF p.role \notin roles THEN 403
  ELSE 0

\* authenticate followed by authorize(...roles) on a route
Gate(token, roles) ==
  LET p == authenticate(token, users)
  IN  IF p.status # 0 THEN p
      ELSE [p EXCEPT !.status = authorize(roles, p)]

\* the request a route starts for principal p
NewReq(op, token, p) ==
  [IdleReq EXCEPT !.op = op, !.token = token, !.user = p.user, !.role = p.role]


\* ------------------------------------------------------------- request bodies
\* POST /api/applications/apply: jobId (0 = missing) and whether coverLetter
\* and resume are non-empty
ApplyBodies == [jobId : JobIds \cup {0}, coverLetter : BOOLEAN, resume : BOOLEAN]

\* POST /api/jobs: whether title, description, companyName, location and
\* jobType are all present
JobBodies == [required : BOOLEAN]

\* PUT /api/jobs/:id: the fields of the Job the body sets
UpdateBodies ==
  {EmptyBody}
    \cup {[jobStatus |-> s] : s \in JobStatuses}
    \cup {[createdBy |-> u] : u \in UserIds}

\* validateApplication
validateApplication(body) == IF body.jobId = 0 THEN 400 ELSE 0

\* the message of the ValidationError validateApplication or applyForJob
\* throws: the first rule that fails; the errors array stays empty
applyForJobErrors(body) ==
  IF body.jobId = 0 THEN {"Job ID is required"}
  ELSE IF ~body.coverLetter THEN {"Cover letter is required"}
  ELSE IF ~body.resume THEN {"Resume is required"}
  ELSE {}

\* validateJobCreation
validateJobCreation(body) == IF ~body.required THEN 400 ELSE 0

\* the fields validateJobCreation requires
RequiredJobFields == {"title", "description", "companyName", "location", "jobType"}

\* the one message validateJobCreation pushes names the five fields,
\* whichever of them is missing
validateJobCreationErrors(body) == IF ~body.required THEN RequiredJobFields ELSE {}

\* ------------------------------------------------- POST /applications/apply
\* applyForJob up to its first storage call
applyForJobChecks(body, p) ==
  IF body.jobId = 0 THEN 400
  ELSE IF ~body.coverLetter THEN 400
  ELSE IF ~body.resume THEN 400
  ELSE IF p.role # "candidate" THEN 403
  ELSE 0

\* router.post("/apply", authenticate, authorize("candidate"),
\*             validateApplication, applyForJob)
applyRoute(r, token, body) ==
  /\ Free(r)
  /\ LET p == Gate(token, {"candidate"})
         q == [NewReq("applyForJob", token, p) EXCEPT !.jobId = body.jobId, !.body = body]
         code == IF p.status # 0 THEN p.status
                 ELSE IF validateApplication(body) # 0 THEN validateApplication(body)
                 ELSE applyForJobChecks(body, p)
     IN  req' = [req EXCEPT ![r] =
                   IF code = 400
                   THEN Respond([q EXCEPT !.errors = applyForJobErrors(body)], code)
                   ELSE IF code # 0 THEN Respond(q, code)
                   ELSE [q EXCEPT !.pc = "applyForJob_findJob"]]
  /\ UNCHANGED <<db, proc>>

\* const job = await Job.findById(jobId) and the two checks on it
applyForJob_findJob(r) ==
  /\ req[r].pc = "applyForJob_findJob"
  /\ req' = [req EXCEPT ![r] =
               IF req[r].jobId \notin DOMAIN jobs THEN Respond(req[r], 404)
               ELSE IF jobs[req[r].jobId].jobStatus # "Active" THEN Respond(req[r], 400)
               ELSE [req[r] EXCEPT !.pc = "applyForJob_findOne"]]
  /\ UNCHANGED <<db, proc>>

\* the (jobId, candidateId) query of Application.findOne
ExistingApplication(jobId, candidateId) ==
  {a \in DOMAIN apps : apps[a].jobId = jobId /\ apps[a].candidateId = candidateId}

\* the pre-check that lets every request through
applyForJob_findOne_nocheck(r) ==
  /\ req[r].pc = "applyForJob_findOne"
  /\ req' = [req EXCEPT ![r] = [req[r] EXCEPT !.pc = "applyForJob_save"]]
  /\ UNCHANGED <<db, proc>>

\* const existingApplication = await Application.findOne({jobId, candidateId})
applyForJob_findOne(r) ==
  /\ req[r].pc = "applyForJob_findOne"
  /\ req' = [req EXCEPT ![r] =
               IF ExistingApplication(req[r].jobId, req[r].user) # {}
               THEN Respond(req[r], 409)
               ELSE [req[r] EXCEPT !.pc = "applyForJob_save"]]
  /\ UNCHANGED <<db, proc>>

\* await application.save(): the schema has no unique index, the insert
\* always succeeds; applicationStatus takes its default
applyForJob_save(r) ==
  /\ req[r].pc = "applyForJob_save"
  /\ nextAppId <= MaxApps
  /\ apps' = With(apps, nextAppId,
                  [jobId |-> req[r].jobId, candidateId |-> req[r].user,
                   applicationStatus |-> "pending"])
  /\ nextAppId' = nextAppId + 1
  /\ req' = [req EXCEPT ![r] = Respond([req[r] EXCEPT !.appId = nextAppId], 201)]
  /\ UNCHANGED <<users, jobs, nextJobId, nextUserId, proc>>


\* --------------------------------------------------------------- /api/jobs
\* createJob's own role check
createJobChecks(p) ==
  IF p.role # "employer" /\ p.role # "admin" THEN 403 ELSE 0

\* router.post("/", authenticate, authorize("employer", "admin"),
\*             validateJobCreation, createJob)
createJobRoute(r, token, body) ==
  /\ Free(r)
  /\ LET p == Gate(token, {"employer", "admin"})
         q == [NewReq("createJob", token, p) EXCEPT !.body = body]
         code == IF p.status # 0 THEN p.status
                 ELSE IF validateJobCreation(body) # 0 THEN validateJobCreation(body)
                 ELSE createJobChecks(p)
     IN  req' = [req EXCEPT ![r] =
                   IF code = 400
                   THEN Respond([q EXCEPT !.errors = validateJobCreationErrors(body)], code)
                   ELSE IF code # 0 THEN Respond(q, code)
                   ELSE [q EXCEPT !.pc = "createJob_save"]]
  /\ UNCHANGED <<db, proc>>

\* salaryRange: {min: Number, max: Number}, both optional (0 = absent)
Salaries == 0..MaxSalary
NoSalaryRange == [min |-> 0, max |-> 0]
SalaryRanges == [min : Salaries, max : Salaries]

\* a Job that does not record the principal
NewJobUnowned(createdBy) ==
  [createdBy |-> 0, jobStatus |-> "Active", salaryRange |-> NoSalaryRange]

\* the document new Job({..., createdBy: req.user._id}) builds, before the
\* body's salaryRange is copied in
NewJob(createdBy) ==
  [createdBy |-> createdBy, jobStatus |-> "Active", salaryRange |-> NoSalaryRange]

\* salaryRange of the body, copied as it is
WithSalaryRange(job, body) ==
  IF "salaryRange" \in DOMAIN body
  THEN [job EXCEPT !.salaryRange = body.salaryRange]
  ELSE job

\* await job.save()
createJob_save(r) ==
  /\ req[r].pc = "createJob_save"
  /\ nextJobId <= MaxJobs
  /\ jobs' = With(jobs, nextJobId, WithSalaryRange(NewJob(req[r].user), req[r].body))
  /\ nextJobId' = nextJobId + 1
  /\ req' = [req EXCEPT ![r] = Respond([req[r] EXCEPT !.jobId = nextJobId], 201)]
  /\ UNCHANGED <<users, apps, nextAppId, nextUserId, proc>>

\* router.get("/:id", getJobById): public, one storage call
getJobByIdStatus(js, id) == IF id \notin DOMAIN js THEN 404 ELSE 200

getJobById(r, id) ==
  /\ Free(r)
  /\ req' = [req EXCEPT ![r] =
               Respond([IdleReq EXCEPT !.op = "getJobById", !.jobId = id],
                       getJobByIdStatus(jobs, id))]
  /\ UNCHANGED <<db, proc>>

\* job.createdBy.toString() !== req.user?._id?.toString() &&
\* req.user?.role !== "admin"
NotOwnerNorAdmin(job, q) == job.createdBy # q.user /\ q.role # "admin"

\* router.put("/:id", authenticate, authorize("employer", "admin"), updateJob)
updateJobRoute(r, token, id, body) ==
  /\ Free(r)
  /\ LET p == Gate(token, {"employer", "admin"})
         q == [NewReq("updateJob", token, p) EXCEPT !.jobId = id, !.body = body]
     IN  req' = [req EXCEPT ![r] =
                   IF p.status # 0 THEN Respond(q, p.status)
                   ELSE [q EXCEPT !.pc = "updateJob_findById"]]
  /\ UNCHANGED <<db, proc>>

\* const job = await Job.findById(id), then the ownership check
updateJob_findById(r) ==
  /\ req[r].pc = "updateJob_findById"
  /\ req' = [req EXCEPT ![r] =
               IF req[r].jobId \notin DOMAIN jobs THEN Respond(req[r], 404)
               ELSE IF NotOwnerNorAdmin(jobs[req[r].jobId], req[r])
                    THEN Respond(req[r], 403)
               ELSE [req[r] EXCEPT !.pc = "updateJob_findByIdAndUpdate"]]
  /\ UNCHANGED <<db, proc>>

\* the document after $set of the body's fields
ApplyUpdates(job, updates) ==
  [f \in DOMAIN job |-> IF f \in DOMAIN updates THEN updates[f] ELSE job[f]]

\* await Job.findByIdAndUpdate(id, updates, {new: true}); a missing job
\* gives null and the response is still 200
updateJob_findByIdAndUpdate(r) ==
  /\ req[r].pc = "updateJob_findByIdAndUpdate"
  /\ jobs' = IF req[r].jobId \in DOMAIN jobs
             THEN [jobs EXCEPT ![req[r].jobId] = ApplyUpdates(@, req[r].body)]
             ELSE jobs
  /\ req' = [req EXCEPT ![r] = Respond(req[r], 200)]
  /\ UNCHANGED <<users, apps, nextJobId, nextAppId, nextUserId, proc>>

\* router.delete("/:id", authenticate, authorize("employer", "admin"), deleteJob)
deleteJobRoute(r, token, id) ==
  /\ Free(r)
  /\ LET p == Gate(token, {"employer", "admin"})
         q == [NewReq("deleteJob", token, p) EXCEPT !.jobId = id]
     IN  req' = [req EXCEPT ![r] =
                   IF p.status # 0 THEN Respond(q, p.status)
                   ELSE [q EXCEPT !.pc = "deleteJob_findById"]]
  /\ UNCHANGED <<db, proc>>


\* a deleteJob that removes the Job before it checks the owner
deleteJob_findById_deletesFirst(r) ==
  /\ req[r].pc = "deleteJob_findById"
  /\ jobs' = Without(jobs, {req[r].jobId})
  /\ req' = [req EXCEPT ![r] =
               IF req[r].jobId \notin DOMAIN jobs THEN Respond(req[r], 404)
               ELSE IF NotOwnerNorAdmin(jobs[req[r].jobId], req[r])
                    THEN Respond(req[r], 403)
               ELSE [req[r] EXCEPT !.pc = "deleteJob_findByIdAndDelete"]]
  /\ UNCHANGED <<users, apps, nextJobId, nextAppId, nextUserId, proc>>

\* const job = await Job.findById(id), then the ownership check
deleteJob_findById(r) ==
  /\ req[r].pc = "deleteJob_findById"
  /\ req' = [req EXCEPT ![r] =
               IF req[r].jobId \notin DOMAIN jobs THEN Respond(req[r], 404)
               ELSE IF NotOwnerNorAdmin(jobs[req[r].jobId], req[r])
                    THEN Respond(req[r], 403)
               ELSE [req[r] EXCEPT !.pc = "deleteJob_findByIdAndDelete"]]
  /\ UNCHANGED <<db, proc>>

\* await Job.findByIdAndDelete(id)
deleteJob_findByIdAndDelete(r) ==
  /\ req[r].pc = "deleteJob_findByIdAndDelete"
  /\ jobs' = Without(jobs, {req[r].jobId})
  /\ req' = [req EXCEPT ![r] = [req[r] EXCEPT !.pc = "deleteJob_deleteMany"]]
  /\ UNCHANGED <<users, apps, nextJobId, nextAppId, nextUserId, proc>>

\* the ids Application.deleteMany({jobId: {$in: jobIds}}) removes
AppsOfJobs(jobIds) == {a \in DOMAIN apps : apps[a].jobId \in jobIds}

\* a cascade that removes nothing
deleteJob_deleteMany_skip(r) ==
  /\ req[r].pc = "deleteJob_deleteMany"
  /\ req' = [req EXCEPT ![r] = Respond(req[r], 200)]
  /\ UNCHANGED <<db, proc>>

\* await Application.deleteMany({jobId: id})
deleteJob_deleteMany(r) ==
  /\ req[r].pc = "deleteJob_deleteMany"
  /\ apps' = Without(apps, AppsOfJobs({req[r].jobId}))
  /\ req' = [req EXCEPT ![r] = Respond(req[r], 200)]
  /\ UNCHANGED <<users, jobs, nextJobId, nextAppId, nextUserId, proc>>


\* ------------------------------------------------------- /api/applications
\* getJobApplications' own role check
getJobApplicationsChecks(p) ==
  IF p.role # "employer" /\ p.role # "admin" THEN 403 ELSE 0

\* router.get("/job/:jobId", authenticate, authorize("employer", "admin"),
\*            getJobApplications): only an employer loads the Job
getJobApplicationsRoute(r, token, jobId) ==
  /\ Free(r)
  /\ LET p == Gate(token, {"employer", "admin"})
         q == [NewReq("getJobApplications", token, p) EXCEPT !.jobId = jobId]
         code == IF p.status # 0 THEN p.status ELSE getJobApplicationsChecks(p)
     IN  req' = [req EXCEPT ![r] =
                   IF code # 0 THEN Respond(q, code)
                   ELSE IF p.role = "employer"
                        THEN [q EXCEPT !.pc = "getJobApplications_findById"]
                   ELSE [q EXCEPT !.pc = "getJobApplications_find"]]
  /\ UNCHANGED <<db, proc>>

\* the employer's ownership check that lets every employer through
NotJobOwnerOff(job, q) == FALSE

\* job.createdBy.toString() !== req.user?._id?.toString()
NotJobOwner(job, q) == job.createdBy # q.user

\* const job = await Job.findById(jobId), employers only
getJobApplications_findById(r) ==
  /\ req[r].pc = "getJobApplications_findById"
  /\ req' = [req EXCEPT ![r] =
               IF req[r].jobId \notin DOMAIN jobs THEN Respond(req[r], 404)
               ELSE IF NotJobOwner(jobs[req[r].jobId], req[r])
                    THEN Respond(req[r], 403)
               ELSE [req[r] EXCEPT !.pc = "getJobApplications_find"]]
  /\ UNCHANGED <<db, proc>>

\* const applications = await Application.find({jobId})
getJobApplications_find(r) ==
  /\ req[r].pc = "getJobApplications_find"
  /\ req' = [req EXCEPT ![r] =
               Respond([req[r] EXCEPT !.out = AppsOfJobs({req[r].jobId})], 200)]
  /\ UNCHANGED <<db, proc>>

\* router.delete("/:id", authenticate, deleteApplication): no authorize
deleteApplicationRoute(r, token, id) ==
  /\ Free(r)
  /\ LET p == authenticate(token, users)
         q == [NewReq("deleteApplication", token, p) EXCEPT !.appId = id]
     IN  req' = [req EXCEPT ![r] =
                   IF p.status # 0 THEN Respond(q, p.status)
                   ELSE [q EXCEPT !.pc = "deleteApplication_findById"]]
  /\ UNCHANGED <<db, proc>>

\* the ownership check of deleteApplication that lets everybody through
NotCandidateNorAdminOff(application, q) == FALSE

\* application.candidateId.toString() !== req.user?._id?.toString() &&
\* req.user?.role !== "admin"
NotCandidateNorAdmin(application, q) ==
  application.candidateId # q.user /\ q.role # "admin"

\* const application = await Application.findById(id), then the check
deleteApplication_findById(r) ==
  /\ req[r].pc = "deleteApplication_findById"
  /\ req' = [req EXCEPT ![r] =
               IF req[r].appId \notin DOMAIN apps THEN Respond(req[r], 404)
               ELSE IF NotCandidateNorAdmin(apps[req[r].appId], req[r])
                    THEN Respond(req[r], 403)
               ELSE [req[r] EXCEPT !.pc = "deleteApplication_findByIdAndDelete"]]
  /\ UNCHANGED <<db, proc>>

\* await Application.findByIdAndDelete(id)
deleteApplication_findByIdAndDelete(r) ==
  /\ req[r].pc = "deleteApplication_findByIdAndDelete"
  /\ apps' = Without(apps, {req[r].appId})
  /\ req' = [req EXCEPT ![r] = Respond(req[r], 200)]
  /\ UNCHANGED <<users, jobs, nextJobId, nextAppId, nextUserId, proc>>

\* -------------------------------------------------------------- /api/admin
\* the role check every admin handler starts with
adminOnly(p) == IF p.role # "admin" THEN 403 ELSE 0

\* router.put("/ban/:userId", ...), router.put("/unban/:userId", ...),
\* router.delete("/users/:userId", ...): authenticate, authorize("admin")
adminRoute(r, token, op, userId) ==
  /\ Free(r)
  /\ LET p == Gate(token, {"admin"})
         q == [NewReq(op, token, p) EXCEPT !.userId = userId]
         code == IF p.status # 0 THEN p.status ELSE adminOnly(p)
     IN  req' = [req EXCEPT ![r] =
                   IF code # 0 THEN Respond(q, code)
                   ELSE [q EXCEPT !.pc = op \o "_findById"]]
  /\ UNCHANGED <<db, proc>>

banUserRoute(r, token, userId)   == adminRoute(r, token, "banUser", userId)
unbanUserRoute(r, token, userId) == adminRoute(r, token, "unbanUser", userId)
deleteUserRoute(r, token, userId) == adminRoute(r, token, "deleteUser", userId)

\* the admin protection of banUser and deleteUser switched off
IsAdminUserOff(user) == FALSE

\* user.role === "admin"
IsAdminUser(user) == user.role = "admin"

\* const user = await User.findById(userId); the admin check;
\* user.isBanned = true marks the path modified only when the value changes
banUser_findById(r) ==
  /\ req[r].pc = "banUser_findById"
  /\ req' = [req EXCEPT ![r] =
               IF req[r].userId \notin DOMAIN users THEN Respond(req[r], 404)
               ELSE IF IsAdminUser(users[req[r].userId]) THEN Respond(req[r], 400)
               ELSE [req[r] EXCEPT !.pc = "banUser_save",
                                   !.modified = ~users[req[r].userId].isBanned]]
  /\ UNCHANGED <<db, proc>>

\* a save that also writes the role
SaveIsBannedAndRole(r, value) ==
  /\ users' = IF req[r].modified /\ req[r].userId \in DOMAIN users
              THEN [users EXCEPT ![req[r].userId] =
                      [@ EXCEPT !.isBanned = value, !.role = "admin"]]
              ELSE users
  /\ req' = [req EXCEPT ![r] =
               IF req[r].modified /\ req[r].userId \notin DOMAIN users
               THEN Respond(req[r], 500)
               ELSE Respond(req[r], 200)]
  /\ UNCHANGED <<jobs, apps, nextJobId, nextAppId, nextUserId, proc>>

\* await user.save() of a loaded document: writes the modified paths only,
\* nothing when none is modified, and fails with DocumentNotFoundError (500)
\* when the document is gone
SaveIsBanned(r, value) ==
  /\ users' = IF req[r].modified /\ req[r].userId \in DOMAIN users
              THEN [users EXCEPT ![req[r].userId].isBanned = value]
              ELSE users
  /\ req' = [req EXCEPT ![r] =
               IF req[r].modified /\ req[r].userId \notin DOMAIN users
               THEN Respond(req[r], 500)
               ELSE Respond(req[r], 200)]
  /\ UNCHANGED <<jobs, apps, nextJobId, nextAppId, nextUserId, proc>>

banUser_save(r) ==
  /\ req[r].pc = "banUser_save"
  /\ SaveIsBanned(r, TRUE)

\* unbanUser has no admin check
unbanUser_findById(r) ==
  /\ req[r].pc = "unbanUser_findById"
  /\ req' = [req EXCEPT ![r] =
               IF req[r].userId \notin DOMAIN users THEN Respond(req[r], 404)
               ELSE [req[r] EXCEPT !.pc = "unbanUser_save",
                                   !.modified = users[req[r].userId].isBanned]]
  /\ UNCHANGED <<db, proc>>

unbanUser_save(r) ==
  /\ req[r].pc = "unbanUser_save"
  /\ SaveIsBanned(r, FALSE)

\* const user = await User.findById(userId); the admin check; the branch on
\* user.role
deleteUser_findById(r) ==
  /\ req[r].pc = "deleteUser_findById"
  /\ req' = [req EXCEPT ![r] =
               IF req[r].userId \notin DOMAIN users THEN Respond(req[r], 404)
               ELSE IF IsAdminUser(users[req[r].userId]) THEN Respond(req[r], 400)
               ELSE IF users[req[r].userId].role = "employer"
                    THEN [req[r] EXCEPT !.pc = "deleteUser_findJobs"]
               ELSE IF users[req[r].userId].role = "candidate"
                    THEN [req[r] EXCEPT !.pc = "deleteUser_deleteCandidateApps"]
               ELSE [req[r] EXCEPT !.pc = "deleteUser_findByIdAndDelete"]]
  /\ UNCHANGED <<db, proc>>

\* the ids Job.find({createdBy: userId}) returns
JobsOf(userId) == {j \in DOMAIN jobs : jobs[j].createdBy = userId}

\* const userJobs = await Job.find({createdBy: userId}); jobIds
deleteUser_findJobs(r) ==
  /\ req[r].pc = "deleteUser_findJobs"
  /\ req' = [req EXCEPT ![r] = [req[r] EXCEPT !.pc = "deleteUser_deleteJobApps",
                                              !.jobIds = JobsOf(req[r].userId)]]
  /\ UNCHANGED <<db, proc>>

\* await Application.deleteMany({jobId: {$in: jobIds}})
deleteUser_deleteJobApps(r) ==
  /\ req[r].pc = "deleteUser_deleteJobApps"
  /\ apps' = Without(apps, AppsOfJobs(req[r].jobIds))
  /\ req' = [req EXCEPT ![r] = [req[r] EXCEPT !.pc = "deleteUser_deleteJobs"]]
  /\ UNCHANGED <<users, jobs, nextJobId, nextAppId, nextUserId, proc>>

\* await Job.deleteMany({createdBy: userId})
deleteUser_deleteJobs(r) ==
  /\ req[r].pc = "deleteUser_deleteJobs"
  /\ jobs' = Without(jobs, JobsOf(req[r].userId))
  /\ req' = [req EXCEPT ![r] = [req[r] EXCEPT !.pc = "deleteUser_findByIdAndDelete"]]
  /\ UNCHANGED <<users, apps, nextJobId, nextAppId, nextUserId, proc>>

\* the ids Application.deleteMany({candidateId: userId}) removes
AppsOfCandidate(userId) == {a \in DOMAIN apps : apps[a].candidateId = userId}

\* await Application.deleteMany({candidateId: userId})
deleteUser_deleteCandidateApps(r) ==
  /\ req[r].pc = "deleteUser_deleteCandidateApps"
  /\ apps' = Without(apps, AppsOfCandidate(req[r].userId))
  /\ req' = [req EXCEPT ![r] = [req[r] EXCEPT !.pc = "deleteUser_findByIdAndDelete"]]
  /\ UNCHANGED <<users, jobs, nextJobId, nextAppId, nextUserId, proc>>

\* await User.findByIdAndDelete(userId)
deleteUser_findByIdAndDelete(r) ==
  /\ req[r].pc = "deleteUser_findByIdAndDelete"
  /\ users' = Without(users, {req[r].userId})
  /\ req' = [req EXCEPT ![r] = Respond(req[r], 200)]
  /\ UNCHANGED <<jobs, apps, nextJobId, nextAppId, nextUserId, proc>>



\* ------------------------------------------------------------ errorHandler
\* an error object: its name, its statusCode (0 = none), its code ("" =
\* none) and whether it carries an errors property
Err(name, statusCode, code, errors) ==
  [name |-> name, statusCode |-> statusCode, code |-> code, errors |-> errors]

\* the driver's E11000 duplicate key error
DuplicateKeyError == Err("MongoServerError", 0, "11000", FALSE)

\* what a storage call throws when the store cannot be reached or the query
\* fails: the buffering timeout of mongoose, a driver error, a refused
\* connection
StorageErrors ==
  {Err("MongooseError", 0, "", FALSE),
   Err("MongoServerSelectionError", 0, "", FALSE),
   Err("MongoNetworkError", 0, "ECONNREFUSED", FALSE)}

StorageErrorNames == {e.name : e \in StorageErrors}

\* errorHandler's statusCode for err
errorHandler(err) ==
  IF err.name = "ValidationError" /\ err.errors THEN 400
  ELSE IF err.name = "AppError" \/ err.statusCode # 0
       THEN (IF err.statusCode # 0 THEN err.statusCode ELSE 500)
  ELSE IF err.name = "ValidationError" /\ ~err.errors THEN 400
  ELSE IF err.code = "11000" THEN 409
  ELSE IF err.name = "CastError" THEN 400
  ELSE IF err.name = "JsonWebTokenError" THEN 401
  ELSE IF err.name = "TokenExpiredError" THEN 401
  ELSE IF err.name = "MongooseError" \/ err.name = "MongoError" THEN 500
  ELSE IF err.code = "LIMIT_FILE_SIZE" THEN 413
  ELSE IF err.code = "ECONNREFUSED" THEN 503
  ELSE 500

\* a storage call of the handler in slot r throws err: asyncHandler passes
\* it to errorHandler, nothing is written
storageFails(r, err) ==
  /\ req[r].pc \notin {"idle", "done"}
  /\ req' = [req EXCEPT ![r] =
               Respond([req[r] EXCEPT !.thrown = err.name], errorHandler(err))]
  /\ UNCHANGED <<db, proc>>

\* the catch block of authenticate: an AuthenticationError goes on as it
\* is, every other error becomes AuthenticationError("Invalid token.")
authenticateCatch(err) ==
  IF err.name = "AuthenticationError" THEN err.statusCode ELSE 401

\* User.findById inside authenticate throws err on a route that starts
\* with authenticate
authenticate_findByIdFails(r, op, token, err) ==
  /\ Free(r)
  /\ token.kind = "valid"
  /\ req' = [req EXCEPT ![r] =
               Respond([IdleReq EXCEPT !.op = op, !.token = token,
                                       !.thrown = err.name],
                       authenticateCatch(err))]
  /\ UNCHANGED <<db, proc>>

\* -------------------------------------------------------------- /api/auth
Emails == 1..MaxEmails

\* the users whose role is admin
Admins(us) == {u \in DOMAIN us : us[u].role = "admin"}

\* the users stored under an email
UsersWithEmail(email) == {u \in DOMAIN users : users[u].email = email}

\* the unique index on email switched off
EmailIndexOff(email) == FALSE

\* email: {unique: true}: the index refuses an insert of a stored email
EmailIndexRejects(email) == UsersWithEmail(email) # {}

\* an email the format check refuses
BadEmail == 0 - 1

\* POST /api/auth/register: email (0 = missing), password ("" = missing,
\* "short" = fewer than 6 characters), role ("" = missing)
RegisterBodies == [email : Emails \cup {0, BadEmail},
                   password : {"", "short", "ok"},
                   role : Roles \cup {"", "root"}]

\* the errors array validateRegistration collects
validateRegistrationErrors(body) ==
  (IF body.email = 0 THEN {"Email is required"} ELSE {})
    \cup (IF body.password = "" THEN {"Password is required"} ELSE {})
    \cup (IF body.role = "" THEN {"Role is required"} ELSE {})
    \cup (IF body.email # 0 /\ body.email = BadEmail
          THEN {"Invalid email format"} ELSE {})
    \cup (IF body.password # "" /\ body.password = "short"
          THEN {"Password must be at least 6 characters long"} ELSE {})
    \cup (IF body.role # "" /\ body.role \notin {"admin", "employer", "candidate"}
          THEN {"Role must be admin, employer, or candidate"} ELSE {})

\* validateRegistration
validateRegistration(body) ==
  IF validateRegistrationErrors(body) # {} THEN 400 ELSE 0

\* router.post("/register", validateRegistration, register)
registerRoute(r, body) ==
  /\ Free(r)
  /\ LET q == [IdleReq EXCEPT !.op = "register", !.body = body]
     IN  req' = [req EXCEPT ![r] =
                   IF validateRegistration(body) # 0
                   THEN Respond([q EXCEPT !.errors = validateRegistrationErrors(body)],
                                validateRegistration(body))
                   ELSE [q EXCEPT !.pc = "register_findOne"]]
  /\ UNCHANGED <<db, proc>>

\* const existingUser = await User.findOne({email})
register_findOne(r) ==
  /\ req[r].pc = "register_findOne"
  /\ req' = [req EXCEPT ![r] =
               IF UsersWithEmail(req[r].body.email) # {}
               THEN Respond(req[r], 409)
               ELSE [req[r] EXCEPT !.pc = "register_save"]]
  /\ UNCHANGED <<db, proc>>

\* the document new User({email, password, role}) builds
NewUser(email, role) == [email |-> email, role |-> role, isBanned |-> FALSE]

\* await user.save(): the unique index throws E11000 for a stored email;
\* otherwise the user is inserted and a token for it is signed
register_save(r) ==
  /\ req[r].pc = "register_save"
  /\ \/ /\ EmailIndexRejects(req[r].body.email)
        /\ req' = [req EXCEPT ![r] =
                     Respond([req[r] EXCEPT !.thrown = DuplicateKeyError.name],
                             errorHandler(DuplicateKeyError))]
        /\ UNCHANGED <<db, proc>>
     \/ /\ ~EmailIndexRejects(req[r].body.email)
        /\ nextUserId <= MaxUsers
        /\ users' = With(users, nextUserId, NewUser(req[r].body.email, req[r].body.role))
        /\ nextUserId' = nextUserId + 1
        /\ req' = [req EXCEPT ![r] = Respond([req[r] EXCEPT !.userId = nextUserId], 201)]
        /\ UNCHANGED <<jobs, apps, nextJobId, nextAppId, proc>>

register(r) ==
  \/ register_findOne(r)
  \/ register_save(r)

\* POST /api/auth/login: email and whether bcrypt.compare accepts the
\* password
LoginBodies == [email : Emails, password : BOOLEAN]

\* login's answer: the user must be stored, not banned, the password right
loginStatus(body) ==
  IF UsersWithEmail(body.email) = {} THEN 401
  ELSE IF \E u \in UsersWithEmail(body.email) : users[u].isBanned THEN 401
  ELSE IF ~body.password THEN 401
  ELSE 200

\* router.post("/login", login): one storage call, User.findOne({email})
login(r, body) ==
  /\ Free(r)
  /\ req' = [req EXCEPT ![r] =
               Respond([IdleReq EXCEPT !.op = "login", !.body = body,
                          !.userId = IF loginStatus(body) = 200
                                     THEN CHOOSE u \in UsersWithEmail(body.email) : TRUE
                                     ELSE 0],
                       loginStatus(body))]
  /\ UNCHANGED <<db, proc>>

\* the tokens register and login have signed so far
IssuedTokens == TokensOf(1..(nextUserId - 1))

\* --------------------------------------------------------------- handshake
\* ADMIN_EMAIL of the environment; 0 when ADMIN_EMAIL or ADMIN_PASSWORD is
\* not set
AdminEmails == Emails \cup {0}

\* startServer(): a process starts, or starts again after it stopped;
\* server.listen calls back and the handshake begins
startServer(p, adminEmail) ==
  /\ proc[p].pc \in {"off", "ready", "exited"}
  /\ proc' = [proc EXCEPT ![p] = [@ EXCEPT !.pc = "handshake_findOne",
                                           !.adminEmail = adminEmail]]
  /\ UNCHANGED <<db, req>>

\* a handshake that never finds an admin
handshake_findOne_nocheck(p) ==
  /\ proc[p].pc = "handshake_findOne"
  /\ proc' = [proc EXCEPT ![p].pc =
                IF proc[p].adminEmail = 0 THEN "exited" ELSE "handshake_save"]
  /\ UNCHANGED <<db, req>>

\* const existingAdmin = await User.findOne({role: "admin"}); return when
\* there is one; process.exit(1) without credentials
handshake_findOne(p) ==
  /\ proc[p].pc = "handshake_findOne"
  /\ proc' = [proc EXCEPT ![p].pc =
                IF Admins(users) # {} THEN "ready"
                ELSE IF proc[p].adminEmail = 0 THEN "exited"
                ELSE "handshake_save"]
  /\ UNCHANGED <<db, req>>

\* await adminUser.save(): a stored email throws E11000 and the catch block
\* calls process.exit(1); otherwise the admin is inserted and the creation
\* is logged
handshake_save(p) ==
  /\ proc[p].pc = "handshake_save"
  /\ \/ /\ EmailIndexRejects(proc[p].adminEmail)
        /\ proc' = [proc EXCEPT ![p].pc = "exited"]
        /\ UNCHANGED <<db, req>>
     \/ /\ ~EmailIndexRejects(proc[p].adminEmail)
        /\ nextUserId <= MaxUsers
        /\ users' = With(users, nextUserId, NewUser(proc[p].adminEmail, "admin"))
        /\ nextUserId' = nextUserId + 1
        /\ proc' = [proc EXCEPT ![p] = [@ EXCEPT !.pc = "ready",
                                                 !.created = @ + 1]]
        /\ UNCHANGED <<jobs, apps, nextJobId, nextAppId, req>>

handshake(p) ==
  \/ handshake_findOne(p)
  \/ handshake_save(p)


\* ------------------------------------------------- process-level handlers
\* a client opens a connection and keeps it open
connect(p) ==
  /\ Open(p)
  /\ ~proc[p].keepAlive
  /\ proc' = [proc EXCEPT ![p].keepAlive = TRUE]
  /\ UNCHANGED <<db, req>>

\* the client ends its connection
disconnect(p) ==
  /\ proc[p].keepAlive
  /\ proc' = [proc EXCEPT ![p].keepAlive = FALSE]
  /\ UNCHANGED <<db, req>>

\* the requests left when process p stops: those in flight are lost with
\* it unless another process is up to own them
RequestsAfterExit(p) ==
  IF \E o \in Procs \ {p} : Listening(o) THEN req
  ELSE [r \in Reqs |-> IF req[r].pc = "done" THEN req[r] ELSE IdleReq]

\* process.on("uncaughtException"): log and process.exit(1)
handleUncaughtException(p) ==
  /\ Open(p)
  /\ proc' = [proc EXCEPT ![p] = [@ EXCEPT !.pc = "exited", !.keepAlive = FALSE]]
  /\ req' = RequestsAfterExit(p)
  /\ UNCHANGED db

\* process.on("unhandledRejection"): log and server.close(callback); the
\* process goes on until the callback runs
handleUnhandledRejection(p) ==
  /\ Open(p)
  /\ proc' = [proc EXCEPT ![p].pc = "closing"]
  /\ UNCHANGED <<db, req>>

\* the callback of server.close: every connection has ended, process.exit(1)
serverClosed(p) ==
  /\ proc[p].pc = "closing"
  /\ ~proc[p].keepAlive
  /\ \A r \in Reqs : req[r].pc \in {"idle", "done"}
  /\ proc' = [proc EXCEPT ![p].pc = "exited"]
  /\ UNCHANGED <<db, req>>


\* ---------------------------------------------------------------- handlers
\* the response is sent and the slot takes the next request
finish(r) ==
  /\ req[r].pc = "done"
  /\ req' = [req EXCEPT ![r] = IdleReq]
  /\ UNCHANGED <<db, proc>>

applyForJob(r) ==
  \/ applyForJob_findJob(r)
  \/ applyForJob_findOne(r)
  \/ applyForJob_save(r)

updateJob(r) ==
  \/ updateJob_findById(r)
  \/ updateJob_findByIdAndUpdate(r)

deleteJob(r) ==
  \/ deleteJob_findById(r)
  \/ deleteJob_findByIdAndDelete(r)
  \/ deleteJob_deleteMany(r)

getJobApplications(r) ==
  \/ getJobApplications_findById(r)
  \/ getJobApplications_find(r)

deleteApplication(r) ==
  \/ deleteApplication_findById(r)
  \/ deleteApplication_findByIdAndDelete(r)

banUser(r) ==
  \/ banUser_findById(r)
  \/ banUser_save(r)

unbanUser(r) ==
  \/ unbanUser_findById(r)
  \/ unbanUser_save(r)

deleteUser(r) ==
  \/ deleteUser_findById(r)
  \/ deleteUser_findJobs(r)
  \/ deleteUser_deleteJobApps(r)
  \/ deleteUser_deleteJobs(r)
  \/ deleteUser_deleteCandidateApps(r)
  \/ deleteUser_findByIdAndDelete(r)

\* ---------------------------------------------------------- specifications
\* Users 1, 2 are admins, 3, 4 employers, 5, 6 candidates, and the
\* processes have finished their startup.  Each specification runs the
\* routes its properties are about, with the principals named in its
\* arrivals.
Init ==
  /\ users = InitUsers
  /\ jobs = [j \in {} |-> 0]
  /\ apps = [a \in {} |-> 0]
  /\ nextUserId = 7
  /\ nextJobId = 1
  /\ nextAppId = 1
  /\ req = [r \in Reqs |-> IdleReq]
  /\ proc = [p \in Procs |-> ReadyProc]

\* one request at a time
Single == {r \in Reqs : r = 1}

\* two requests in flight
Pair == {r \in Reqs : r <= 2}

StatusBodies == {[jobStatus |-> s] : s \in JobStatuses}

\* employer 3 posts jobs and switches their status, candidates apply;
\* one request at a time
NextApply ==
  \E r \in Single :
    \/ \E token \in TokensOf({3}), body \in JobBodies : createJobRoute(r, token, body)
    \/ createJob_save(r)
    \/ \E token \in TokensOf({3}), id \in JobIds, body \in StatusBodies :
         updateJobRoute(r, token, id, body)
    \/ updateJob(r)
    \/ \E token \in TokensOf({3, 5, 6}) \cup BadTokens, body \in ApplyBodies :
         applyRoute(r, token, body)
    \/ applyForJob(r)
    \/ finish(r)

SpecApply == Init /\ [][NextApply]_vars

\* candidate 5 sends applications concurrently
NextRace ==
  \E r \in Reqs :
    \/ \E token \in TokensOf({3}) : createJobRoute(r, token, [required |-> TRUE])
    \/ createJob_save(r)
    \/ \E token \in TokensOf({5}), id \in JobIds :
         applyRoute(r, token, [jobId |-> id, coverLetter |-> TRUE, resume |-> TRUE])
    \/ applyForJob(r)
    \/ finish(r)

SpecRace == Init /\ [][NextRace]_vars

\* jobs are posted, applied to, read and deleted; one request at a time
NextJobs ==
  \E r \in Single :
    \/ \E token \in TokensOf({1, 3, 5}) \cup BadTokens, body \in JobBodies :
         createJobRoute(r, token, body)
    \/ createJob_save(r)
    \/ \E token \in TokensOf({5, 6}), id \in JobIds :
         applyRoute(r, token, [jobId |-> id, coverLetter |-> TRUE, resume |-> TRUE])
    \/ applyForJob(r)
    \/ \E token \in TokensOf({1, 3, 4}), id \in JobIds : deleteJobRoute(r, token, id)
    \/ deleteJob(r)
    \/ \E id \in JobIds : getJobById(r, id)
    \/ finish(r)

SpecJobs == Init /\ [][NextJobs]_vars

\* the update body names createdBy; jobs and users are deleted;
\* one request at a time
NextOwner ==
  \E r \in Single :
    \/ \E token \in TokensOf({3}) : createJobRoute(r, token, [required |-> TRUE])
    \/ createJob_save(r)
    \/ \E token \in TokensOf({5}), id \in JobIds :
         applyRoute(r, token, [jobId |-> id, coverLetter |-> TRUE, resume |-> TRUE])
    \/ applyForJob(r)
    \/ \E token \in TokensOf({1, 3, 4, 5}), id \in JobIds,
          body \in {EmptyBody, [createdBy |-> 5]} :
         updateJobRoute(r, token, id, body)
    \/ updateJob(r)
    \/ \E token \in TokensOf({1, 3, 4, 5}), id \in JobIds : deleteJobRoute(r, token, id)
    \/ deleteJob(r)
    \/ \E token \in TokensOf({1}), u \in {3, 5} : deleteUserRoute(r, token, u)
    \/ deleteUser(r)
    \/ finish(r)

SpecOwner == Init /\ [][NextOwner]_vars

\* admins ban, unban and delete users while employer 3 and candidate 5
\* keep sending requests with their tokens; two requests in flight
NextBan ==
  \E r \in Pair :
    \/ \E token \in TokensOf({1, 2, 3}) \cup BadTokens, u \in {1, 2, 3, 5} :
         banUserRoute(r, token, u)
    \/ banUser(r)
    \/ \E token \in TokensOf({1, 2}), u \in {1, 3, 5} : unbanUserRoute(r, token, u)
    \/ unbanUser(r)
    \/ \E token \in TokensOf({1, 2}), u \in {1, 2, 3, 5} : deleteUserRoute(r, token, u)
    \/ deleteUser(r)
    \/ \E token \in TokensOf({3, 5}) : createJobRoute(r, token, [required |-> TRUE])
    \/ createJob_save(r)
    \/ \E token \in TokensOf({3, 5}), id \in AppIds : deleteApplicationRoute(r, token, id)
    \/ deleteApplication_findById(r)
    \/ finish(r)

SpecBan == Init /\ [][NextBan]_vars

\* applications are listed and deleted; one request at a time
NextApps ==
  \E r \in Single :
    \/ \E token \in TokensOf({3, 4}) : createJobRoute(r, token, [required |-> TRUE])
    \/ createJob_save(r)
    \/ \E token \in TokensOf({5, 6}), id \in JobIds :
         applyRoute(r, token, [jobId |-> id, coverLetter |-> TRUE, resume |-> TRUE])
    \/ applyForJob(r)
    \/ \E token \in TokensOf({1, 3, 4, 5}), id \in JobIds :
         getJobApplicationsRoute(r, token, id)
    \/ getJobApplications(r)
    \/ \E token \in TokensOf({1, 3, 4, 5, 6}) \cup BadTokens, id \in AppIds :
         deleteApplicationRoute(r, token, id)
    \/ deleteApplication(r)
    \/ finish(r)

SpecApps == Init /\ [][NextApps]_vars


\* a store that holds nothing and processes that have not started
InitBoot ==
  /\ users = [u \in {} |-> 0]
  /\ jobs = [j \in {} |-> 0]
  /\ apps = [a \in {} |-> 0]
  /\ nextUserId = 1
  /\ nextJobId = 1
  /\ nextAppId = 1
  /\ req = [r \in Reqs |-> IdleReq]
  /\ proc = [p \in Procs |-> OffProc]

\* one process, started again and again
OneProc == {p \in Procs : p = 1}

\* the bodies validateRegistration accepts
ValidRegisterBodies == {b \in RegisterBodies : validateRegistration(b) = 0}

\* a process starts on an empty store and serves register, login and the
\* admin routes; one request at a time
NextBoot ==
  \/ \E p \in OneProc :
       \/ \E adminEmail \in AdminEmails : startServer(p, adminEmail)
       \/ handshake(p)
  \/ \E r \in Single :
       \/ \E body \in RegisterBodies : registerRoute(r, body)
       \/ register(r)
       \/ \E body \in LoginBodies : login(r, body)
       \/ \E token \in IssuedTokens, u \in 1..MaxUsers : banUserRoute(r, token, u)
       \/ banUser(r)
       \/ \E token \in IssuedTokens, u \in 1..MaxUsers : unbanUserRoute(r, token, u)
       \/ unbanUser(r)
       \/ \E token \in IssuedTokens, u \in 1..MaxUsers : deleteUserRoute(r, token, u)
       \/ deleteUser(r)
       \/ finish(r)

SpecBoot == InitBoot /\ [][NextBoot]_vars

\* one process is started again and again with any credentials while users
\* register and admins delete users; one request at a time
NextStartups ==
  \/ \E p \in OneProc :
       \/ \E adminEmail \in AdminEmails : startServer(p, adminEmail)
       \/ handshake(p)
  \/ \E r \in Single :
       \/ \E body \in ValidRegisterBodies : registerRoute(r, body)
       \/ register(r)
       \/ \E token \in IssuedTokens, u \in 1..MaxUsers : deleteUserRoute(r, token, u)
       \/ deleteUser(r)
       \/ finish(r)

SpecStartups == InitBoot /\ [][NextStartups]_vars

\* the replicas start concurrently on an empty store, each with its own
\* environment
NextReplicas ==
  \E p \in Procs :
    \/ \E adminEmail \in AdminEmails : startServer(p, adminEmail)
    \/ handshake(p)

SpecReplicas == InitBoot /\ [][NextReplicas]_vars

\* employers and candidates register concurrently while a process starts
NextRegister ==
  \/ \E p \in OneProc :
       \/ \E adminEmail \in Emails : startServer(p, adminEmail)
       \/ handshake(p)
  \/ \E r \in Pair :
       \/ \E body \in {b \in ValidRegisterBodies : b.role # "admin"} :
            registerRoute(r, body)
       \/ register(r)
       \/ finish(r)

SpecRegister == InitBoot /\ [][NextRegister]_vars

\* the bodies of createJob and updateJob that carry a salaryRange
SalaryJobBodies == {[required |-> TRUE, salaryRange |-> s] : s \in SalaryRanges}
SalaryUpdateBodies == {[salaryRange |-> s] : s \in SalaryRanges}

\* employer 3 posts and updates jobs with salary ranges; one request at a
\* time
NextSalary ==
  \E r \in Single :
    \/ \E token \in TokensOf({3}), body \in SalaryJobBodies :
         createJobRoute(r, token, body)
    \/ createJob_save(r)
    \/ \E token \in TokensOf({3}), id \in JobIds, body \in SalaryUpdateBodies :
         updateJobRoute(r, token, id, body)
    \/ updateJob(r)
    \/ finish(r)

SpecSalary == Init /\ [][NextSalary]_vars

\* candidate 5 applies while employer 3 switches the status of the job;
\* two requests in flight
NextInactive ==
  \E r \in Pair :
    \/ \E token \in TokensOf({3}) : createJobRoute(r, token, [required |-> TRUE])
    \/ createJob_save(r)
    \/ \E token \in TokensOf({3}), id \in JobIds, body \in StatusBodies :
         updateJobRoute(r, token, id, body)
    \/ updateJob(r)
    \/ \E token \in TokensOf({5}), id \in JobIds :
         applyRoute(r, token, [jobId |-> id, coverLetter |-> TRUE, resume |-> TRUE])
    \/ applyForJob(r)
    \/ finish(r)

SpecInactive == Init /\ [][NextInactive]_vars

\* storage calls fail while employer 3 posts jobs and candidate 5 applies;
\* one request at a time
NextFail ==
  \E r \in Single :
    \/ \E token \in TokensOf({3}) : createJobRoute(r, token, [required |-> TRUE])
    \/ createJob_save(r)
    \/ \E token \in TokensOf({5}), id \in JobIds :
         applyRoute(r, token, [jobId |-> id, coverLetter |-> TRUE, resume |-> TRUE])
    \/ applyForJob(r)
    \/ \E op \in {"createJob", "applyForJob"}, token \in TokensOf({3, 5}),
          err \in StorageErrors :
         authenticate_findByIdFails(r, op, token, err)
    \/ \E err \in StorageErrors : storageFails(r, err)
    \/ finish(r)

SpecFail == Init /\ [][NextFail]_vars


\* createJob bodies that say which required fields are missing
JobForms == {[required |-> m = {}, missing |-> m] : m \in SUBSET RequiredJobFields}

\* bodies that break validation rules are sent to register, applyForJob
\* and createJob; one request at a time
NextValidation ==
  \E r \in Single :
    \/ \E body \in RegisterBodies \ ValidRegisterBodies : registerRoute(r, body)
    \/ \E token \in TokensOf({5}), body \in ApplyBodies : applyRoute(r, token, body)
    \/ applyForJob(r)
    \/ \E token \in TokensOf({3}), body \in JobForms : createJobRoute(r, token, body)
    \/ createJob_save(r)
    \/ finish(r)

SpecValidation == Init /\ [][NextValidation]_vars


\* a process starts on an empty store; users register and log in, admins
\* ban, unban and delete them; one request at a time
NextRoles ==
  \/ \E p \in OneProc :
       \/ \E adminEmail \in {e \in Emails : e = 1} : startServer(p, adminEmail)
       \/ handshake(p)
  \/ \E r \in Single :
       \/ \E body \in ValidRegisterBodies : registerRoute(r, body)
       \/ register(r)
       \/ \E email \in Emails : login(r, [email |-> email, password |-> TRUE])
       \/ \E token \in IssuedTokens, u \in 1..MaxUsers : banUserRoute(r, token, u)
       \/ banUser(r)
       \/ \E token \in IssuedTokens, u \in 1..MaxUsers : unbanUserRoute(r, token, u)
       \/ unbanUser(r)
       \/ \E token \in IssuedTokens, u \in 1..MaxUsers : deleteUserRoute(r, token, u)
       \/ deleteUser(r)
       \/ finish(r)

SpecRoles == InitBoot /\ [][NextRoles]_vars


\* storage calls fail while jobs and users are deleted and the deletion is
\* sent again; one request at a time
NextCascade ==
  \E r \in Single :
    \/ \E token \in TokensOf({3}) : createJobRoute(r, token, [required |-> TRUE])
    \/ createJob_save(r)
    \/ \E token \in TokensOf({5}), id \in JobIds :
         applyRoute(r, token, [jobId |-> id, coverLetter |-> TRUE, resume |-> TRUE])
    \/ applyForJob(r)
    \/ \E token \in TokensOf({1, 3}), id \in JobIds : deleteJobRoute(r, token, id)
    \/ deleteJob(r)
    \/ \E token \in TokensOf({1}), u \in {3, 5} : deleteUserRoute(r, token, u)
    \/ deleteUser(r)
    \/ \E err \in StorageErrors : storageFails(r, err)
    \/ finish(r)

SpecCascade == Init /\ [][NextCascade]_vars


\* the populated store served by one process
InitOne ==
  /\ users = InitUsers
  /\ jobs = [j \in {} |-> 0]
  /\ apps = [a \in {} |-> 0]
  /\ nextUserId = 7
  /\ nextJobId = 1
  /\ nextAppId = 1
  /\ req = [r \in Reqs |-> IdleReq]
  /\ proc = [p \in Procs |-> IF p \in OneProc THEN ReadyProc ELSE OffProc]

\* the process meets an uncaught exception or an unhandled rejection while
\* employer 3 posts jobs and candidate 5 applies over connections they may
\* keep open; two requests in flight
NextFatal ==
  \/ \E p \in OneProc :
       \/ connect(p)
       \/ disconnect(p)
       \/ handleUncaughtException(p)
       \/ handleUnhandledRejection(p)
       \/ serverClosed(p)
  \/ \E r \in Pair :
       \/ \E token \in TokensOf({3}) : createJobRoute(r, token, [required |-> TRUE])
       \/ createJob_save(r)
       \/ \E token \in TokensOf({5}), id \in JobIds :
            applyRoute(r, token, [jobId |-> id, coverLetter |-> TRUE, resume |-> TRUE])
       \/ applyForJob(r)
       \/ finish(r)

SpecFatal == InitOne /\ [][NextFatal]_vars


\* admin 1 bans employer 3 and candidate 5 while they post jobs and apply;
\* two requests in flight
NextBanRace ==
  \E r \in Pair :
    \/ \E token \in TokensOf({1}), u \in {3, 5} : banUserRoute(r, token, u)
    \/ banUser(r)
    \/ \E token \in TokensOf({3}) : createJobRoute(r, token, [required |-> TRUE])
    \/ createJob_save(r)
    \/ \E token \in TokensOf({5}), id \in JobIds :
         applyRoute(r, token, [jobId |-> id, coverLetter |-> TRUE, resume |-> TRUE])
    \/ applyForJob(r)
    \/ finish(r)

SpecBanRace == Init /\ [][NextBanRace]_vars

\* employer 3 deletes jobs while candidate 5 applies to them; two requests
\* in flight
NextDeleteRace ==
  \E r \in Pair :
    \/ \E token \in TokensOf({3}) : createJobRoute(r, token, [required |-> TRUE])
    \/ createJob_save(r)
    \/ \E token \in TokensOf({5}), id \in JobIds :
         applyRoute(r, token, [jobId |-> id, coverLetter |-> TRUE, resume |-> TRUE])
    \/ applyForJob(r)
    \/ \E token \in TokensOf({3}), id \in JobIds : deleteJobRoute(r, token, id)
    \/ deleteJob(r)
    \/ finish(r)

SpecDeleteRace == Init /\ [][NextDeleteRace]_vars

\* admin 1 deletes employer 3 and candidate 5 while they post jobs and
\* apply; two requests in flight
NextUserRace ==
  \E r \in Pair :
    \/ \E token \in TokensOf({3}) : createJobRoute(r, token, [required |-> TRUE])
    \/ createJob_save(r)
    \/ \E token \in TokensOf({5, 6}), id \in JobIds :
         applyRoute(r, token, [jobId |-> id, coverLetter |-> TRUE, resume |-> TRUE])
    \/ applyForJob(r)
    \/ \E token \in TokensOf({1}), u \in {3, 5} : deleteUserRoute(r, token, u)
    \/ deleteUser(r)
    \/ finish(r)

SpecUserRace == Init /\ [][NextUserRace]_vars


\* registrations, jobs, applications, bans and deletions, with good and
\* bad requests of every kind; the emails sent to register are stored
\* already or malformed; one request at a time
NextFrame ==
  \E r \in Single :
    \/ \E body \in {b \in RegisterBodies :
                      /\ b.role \in {"employer", "candidate"}
                      /\ b.password \in {"short", "ok"}
                      /\ b.email \in {1, BadEmail}} :
         registerRoute(r, body)
    \/ register_findOne(r)
    \/ \E token \in TokensOf({3, 5}) \cup {NoToken}, body \in JobBodies :
         createJobRoute(r, token, body)
    \/ createJob_save(r)
    \/ \E token \in TokensOf({3, 5}), body \in {b \in ApplyBodies : b.coverLetter} :
         applyRoute(r, token, body)
    \/ applyForJob(r)
    \/ \E token \in TokensOf({3, 4}), id \in JobIds,
          body \in {EmptyBody, [jobStatus |-> "Inactive"]} :
         updateJobRoute(r, token, id, body)
    \/ updateJob(r)
    \/ \E token \in TokensOf({1, 3, 4}), id \in JobIds : deleteJobRoute(r, token, id)
    \/ deleteJob(r)
    \/ \E token \in TokensOf({1, 5, 6}), id \in AppIds :
         deleteApplicationRoute(r, token, id)
    \/ deleteApplication(r)
    \/ \E token \in TokensOf({1, 3}), u \in {1, 5, 7} : banUserRoute(r, token, u)
    \/ banUser(r)
    \/ \E token \in TokensOf({1, 3}), u \in {5, 7} : unbanUserRoute(r, token, u)
    \/ unbanUser(r)
    \/ \E token \in TokensOf({1, 3}), u \in {1, 3, 5, 7} : deleteUserRoute(r, token, u)
    \/ deleteUser(r)
    \/ finish(r)

SpecFrame == Init /\ [][NextFrame]_vars


\* -------------------------------------------------------------- properties
\* a request arrives in slot r in this step
Arrives(r) == req[r].pc = "idle" /\ req'[r].pc # "idle"

\* slot r's request is answered in this step
Answered(r) == req[r].pc # "done" /\ req'[r].pc = "done"

\* slot r's handler takes a step
Steps(r) == req[r].pc \notin {"idle", "done"} /\ req'[r] # req[r]

C2_OneApplicationPerPair ==
  \A a \in DOMAIN apps, b \in DOMAIN apps :
    (apps[a].jobId = apps[b].jobId /\ apps[a].candidateId = apps[b].candidateId)
      => a = b

Authenticated(q) ==
  /\ q.token.kind = "valid"
  /\ q.token.userId \in DOMAIN users
  /\ ~users[q.token.userId].isBanned

\* ids below the counter that are no longer stored: deleted documents
DeletedJobs == {j \in JobIds : j < nextJobId /\ j \notin DOMAIN jobs}
DeletedApps == {a \in AppIds : a < nextAppId /\ a \notin DOMAIN apps}

\* C4: run on its own, a deleteJob request answered 200 leaves neither the
\* Job nor any Application with its jobId; a deleted Job stays deleted and
\* getJobById on it answers 404.
C4_DeleteJobCascade ==
  [][\A r \in Reqs :
       /\ (Answered(r) /\ req[r].op = "deleteJob" /\ req'[r].status = 200)
          => (/\ req[r].jobId \notin DOMAIN jobs'
              /\ \A a \in DOMAIN apps' : apps'[a].jobId # req[r].jobId
              /\ req[r].jobId \in DeletedJobs')
       /\ DeletedJobs \subseteq DeletedJobs'
       /\ (Arrives(r) /\ req'[r].op = "getJobById" /\ req'[r].jobId \in DeletedJobs)
          => (req'[r].pc = "done" /\ req'[r].status = 404)]_vars

\* a deleteJob has been answered 200 after its cascade removed two
\* Applications, and no Application is left for the job
C4_Witness ==
  \E r \in Reqs :
    /\ req[r].pc = "done"
    /\ req[r].op = "deleteJob"
    /\ req[r].status = 200
    /\ req[r].jobId \in DeletedJobs
    /\ Cardinality(DeletedApps) >= 2
    /\ \A a \in DOMAIN apps : apps[a].jobId # req[r].jobId

\* C5: run on its own, a deleteUser request on a non-admin user U answered
\* 200 leaves no record that references U: U is not stored, no Job has
\* createdBy = U, no Application has candidateId = U or the id of a job U
\* owned; and no step of it touches a record that does not depend on U.
C5_DeleteUserCascade ==
  [][\A r \in Reqs :
       /\ (Answered(r) /\ req[r].op = "deleteUser" /\ req'[r].status = 200)
          => (/\ req[r].userId \notin DOMAIN users'
              /\ \A j \in DOMAIN jobs' : jobs'[j].createdBy # req[r].userId
              /\ \A a \in DOMAIN apps' :
                   /\ apps'[a].candidateId # req[r].userId
                   /\ apps'[a].jobId \notin req[r].jobIds)
       /\ (Steps(r) /\ req[r].op = "deleteUser")
          => (/\ \A u \in DOMAIN users \ {req[r].userId} :
                   u \in DOMAIN users' /\ users'[u] = users[u]
              /\ \A j \in DOMAIN jobs :
                   jobs[j].createdBy # req[r].userId
                     => (j \in DOMAIN jobs' /\ jobs'[j] = jobs[j])
              /\ \A a \in DOMAIN apps :
                   (/\ apps[a].candidateId # req[r].userId
                    /\ apps[a].jobId \in DOMAIN jobs
                    /\ jobs[apps[a].jobId].createdBy # req[r].userId)
                     => (a \in DOMAIN apps' /\ apps'[a] = apps[a]))]_vars

\* C6: banUser and deleteUser on a stored user whose role is admin are
\* answered 400 by the step that loaded the target, whoever the acting
\* admin is, and users, jobs and applications are unchanged.
C6_AdminsProtected ==
  [][\A r \in Reqs :
       /\ (/\ Arrives(r)
           /\ req'[r].op \in {"banUser", "deleteUser"}
           /\ Authenticated(req'[r])
           /\ users[req'[r].token.userId].role = "admin")
          => (req'[r].pc = req'[r].op \o "_findById" /\ db' = db)
       /\ (/\ Steps(r)
           /\ req[r].pc \in {"banUser_findById", "deleteUser_findById"}
           /\ req[r].userId \in DOMAIN users
           /\ users[req[r].userId].role = "admin")
          => (/\ req'[r].pc = "done"
              /\ req'[r].status = 400
              /\ db' = db)]_vars

\* an admin's ban or delete of another admin has been answered 400 and the
\* target is stored, not banned
C6_Witness ==
  \E r \in Reqs :
    /\ req[r].pc = "done"
    /\ req[r].op \in {"banUser", "deleteUser"}
    /\ req[r].status = 400
    /\ req[r].userId # req[r].token.userId
    /\ req[r].userId \in DOMAIN users
    /\ users[req[r].userId].role = "admin"
    /\ ~users[req[r].userId].isBanned

\* C7: createJob by a candidate is answered 403 and stores nothing; by an
\* employer or admin whose body has the required fields it reaches the save,
\* which stores exactly one Job, createdBy the principal and Active (201).
C7_CreateJobRoleGate ==
  [][\A r \in Reqs :
       /\ (Arrives(r) /\ req'[r].op = "createJob" /\ Authenticated(req'[r]))
          => IF users[req'[r].token.userId].role = "candidate"
             THEN req'[r].pc = "done" /\ req'[r].status = 403 /\ db' = db
             ELSE /\ db' = db
                  /\ req'[r].body.required
                       => (/\ req'[r].pc = "createJob_save"
                           /\ req'[r].user = req'[r].token.userId)
       /\ (Steps(r) /\ req[r].op = "createJob")
          => (/\ req'[r].pc = "done"
              /\ req'[r].status = 201
              /\ \E j \in DOMAIN jobs' \ DOMAIN jobs :
                   /\ DOMAIN jobs' = DOMAIN jobs \cup {j}
                   /\ \A k \in DOMAIN jobs : jobs'[k] = jobs[k]
                   /\ jobs'[j].createdBy = req[r].token.userId
                   /\ jobs'[j].jobStatus = "Active")]_vars

\* an employer's createJob has been answered 201 and its Job is stored,
\* Active and owned by the employer
C7_Witness ==
  \E r \in Reqs :
    /\ req[r].pc = "done"
    /\ req[r].op = "createJob"
    /\ req[r].status = 201
    /\ InitUsers[req[r].token.userId].role = "employer"
    /\ req[r].jobId \in DOMAIN jobs
    /\ jobs[req[r].jobId].createdBy = req[r].token.userId
    /\ jobs[req[r].jobId].jobStatus = "Active"


\* C8: updateJob and deleteJob on a stored job are answered 200 iff the
\* principal's id equals the job's createdBy or the principal is an admin;
\* any other authenticated principal is answered 403 and jobs and
\* applications are unchanged.
C8_OwnerOrAdminOnly ==
  [][\A r \in Reqs :
       /\ (/\ Answered(r)
           /\ req'[r].op \in {"updateJob", "deleteJob"}
           /\ Authenticated(req'[r])
           /\ req'[r].jobId \in DOMAIN jobs)
          => IF \/ jobs[req'[r].jobId].createdBy = req'[r].token.userId
                \/ users[req'[r].token.userId].role = "admin"
             THEN req'[r].status = 200
             ELSE req'[r].status = 403 /\ jobs' = jobs /\ apps' = apps
       /\ (/\ Steps(r)
           /\ req[r].pc = "deleteJob_findById"
           /\ req[r].jobId \in DOMAIN jobs)
          => IF \/ jobs[req[r].jobId].createdBy = req[r].token.userId
                \/ users[req[r].token.userId].role = "admin"
             THEN req'[r].pc = "deleteJob_findByIdAndDelete"
             ELSE req'[r].pc = "done" /\ req'[r].status = 403 /\ db' = db]_vars

\* C9: deleteApplication on a stored Application goes on to delete it
\* (answered 200, the Application gone, the others unchanged) iff the
\* principal is its candidate or an admin; every other authenticated
\* principal is answered 403 and the Application stays stored.
C9_DeleteApplicationOwnerOrAdmin ==
  [][\A r \in Reqs :
       /\ (Arrives(r) /\ req'[r].op = "deleteApplication" /\ Authenticated(req'[r]))
          => (/\ req'[r].pc = "deleteApplication_findById"
              /\ req'[r].user = req'[r].token.userId
              /\ db' = db)
       /\ (/\ Steps(r)
           /\ req[r].pc = "deleteApplication_findById"
           /\ req[r].appId \in DOMAIN apps)
          => IF \/ apps[req[r].appId].candidateId = req[r].token.userId
                \/ InitUsers[req[r].token.userId].role = "admin"
             THEN req'[r].pc = "deleteApplication_findByIdAndDelete" /\ db' = db
             ELSE req'[r].pc = "done" /\ req'[r].status = 403 /\ db' = db
       /\ (Steps(r) /\ req[r].pc = "deleteApplication_findByIdAndDelete")
          => (/\ req'[r].pc = "done"
              /\ req'[r].status = 200
              /\ DOMAIN apps' = DOMAIN apps \ {req[r].appId}
              /\ \A a \in DOMAIN apps' : apps'[a] = apps[a]
              /\ jobs' = jobs /\ users' = users)]_vars

\* the employer who owns the job of an Application asked to delete it, was
\* answered 403, and the Application is still stored
C9_Witness ==
  \E r \in Reqs :
    /\ req[r].pc = "done"
    /\ req[r].op = "deleteApplication"
    /\ req[r].status = 403
    /\ req[r].appId \in DOMAIN apps
    /\ apps[req[r].appId].jobId \in DOMAIN jobs
    /\ jobs[apps[req[r].appId].jobId].createdBy = req[r].token.userId

\* C10: getJobApplications by an employer for a stored job goes on to list
\* the job's Applications iff the job's createdBy is the employer; another
\* employer is answered 403 and is given no Application; an admin lists
\* any job without the ownership check; the listing answers 200 with
\* exactly the Applications whose jobId is the job.
C10_ListingOwnerOnly ==
  [][\A r \in Reqs :
       /\ (Arrives(r) /\ req'[r].op = "getJobApplications" /\ Authenticated(req'[r]))
          => (/\ InitUsers[req'[r].token.userId].role = "employer"
                   => req'[r].pc = "getJobApplications_findById"
              /\ InitUsers[req'[r].token.userId].role = "admin"
                   => req'[r].pc = "getJobApplications_find"
              /\ req'[r].out = {})
       /\ (/\ Steps(r)
           /\ req[r].pc = "getJobApplications_findById"
           /\ req[r].jobId \in DOMAIN jobs)
          => IF jobs[req[r].jobId].createdBy = req[r].token.userId
             THEN req'[r].pc = "getJobApplications_find" /\ req'[r].out = {}
             ELSE req'[r].pc = "done" /\ req'[r].status = 403 /\ req'[r].out = {}
       /\ (Steps(r) /\ req[r].pc = "getJobApplications_find")
          => (/\ req'[r].pc = "done"
              /\ req'[r].status = 200
              /\ req'[r].out = {a \in DOMAIN apps : apps[a].jobId = req[r].jobId}
              /\ \/ InitUsers[req[r].token.userId].role = "admin"
                 \/ /\ req[r].jobId \in DOMAIN jobs
                    /\ jobs[req[r].jobId].createdBy = req[r].token.userId)
       /\ (Arrives(r) \/ Steps(r)) /\ req'[r].op = "getJobApplications"
          => db' = db]_vars

\* an employer who owns another job asked for the Applications of a job
\* that has one and is not theirs, and was answered 403 with none
C10_Witness ==
  \E r \in Reqs :
    /\ req[r].pc = "done"
    /\ req[r].op = "getJobApplications"
    /\ req[r].status = 403
    /\ req[r].out = {}
    /\ req[r].jobId \in DOMAIN jobs
    /\ jobs[req[r].jobId].createdBy # req[r].token.userId
    /\ \E j \in DOMAIN jobs : jobs[j].createdBy = req[r].token.userId
    /\ \E a \in DOMAIN apps : apps[a].jobId = req[r].jobId

\* C11: getJobApplications for a job id that is not stored is answered 404
\* for every principal that passes the role gate, employer or admin, and
\* never with a listing.
C11_MissingJobNotFound ==
  [][\A r \in Reqs :
       (/\ Answered(r)
        /\ req'[r].op = "getJobApplications"
        /\ Authenticated(req'[r])
        /\ users[req'[r].token.userId].role \in {"employer", "admin"}
        /\ req'[r].jobId \notin DOMAIN jobs)
       => req'[r].status = 404]_vars

\* C12: once a handshake has completed (a process is ready), the store
\* holds exactly one user whose role is admin, whatever register, login,
\* banUser, unbanUser, deleteUser and further startups do.
C12_ExactlyOneAdmin ==
  (\E p \in Procs : proc[p].pc = "ready") => Cardinality(Admins(users)) = 1

\* C13: when the store holds an admin, the handshake of a process started
\* with any credentials goes to ready without creating or modifying a
\* user, and over all its startups a process logs at most one created
\* admin.
C13_HandshakeIdempotent ==
  [][\A p \in Procs :
       /\ (/\ proc[p].pc = "handshake_findOne"
           /\ proc'[p] # proc[p]
           /\ Admins(users) # {})
          => (/\ proc'[p] = [proc[p] EXCEPT !.pc = "ready"]
              /\ db' = db)
       /\ proc'[p].created <= 1]_vars

\* a process that created the admin was started again with another
\* ADMIN_EMAIL, is ready, and the store holds the one admin of the first
\* startup and no user under the new ADMIN_EMAIL
C13_Witness ==
  \E p \in Procs :
    /\ proc[p].pc = "ready"
    /\ proc[p].created = 1
    /\ proc[p].adminEmail # 0
    /\ UsersWithEmail(proc[p].adminEmail) = {}
    /\ Cardinality(Admins(users)) = 1

\* C14: when the replicas run the handshake concurrently on a store without
\* an admin, the store ends with one admin for every interleaving of their
\* findOne and save steps.
C14_OneAdminAfterConcurrentHandshake ==
  Cardinality(Admins(users)) <= 1

\* C15: no request arrives at a handler and no handler takes a step while
\* the store holds no admin.
C15_NoTrafficBeforeBootstrap ==
  [][\A r \in Reqs : (Arrives(r) \/ Steps(r)) => Admins(users) # {}]_vars

C18_SalaryRangeOrdered ==
  \A j \in DOMAIN jobs :
    (jobs[j].salaryRange.min # 0 /\ jobs[j].salaryRange.max # 0)
      => jobs[j].salaryRange.min <= jobs[j].salaryRange.max

\* C19: an Application is inserted only for a Job that is stored and Active
\* at the moment of the insertion, also when updateJob interleaves with
\* applyForJob; and updateJob leaves the Applications as they are.
C19_ActiveAtInsertion ==
  [][\A r \in Reqs :
       /\ (Steps(r) /\ req[r].op = "applyForJob" /\ apps' # apps)
          => (/\ req[r].jobId \in DOMAIN jobs
              /\ jobs[req[r].jobId].jobStatus = "Active")
       /\ (Steps(r) /\ req[r].op = "updateJob") => apps' = apps]_vars

\* C20: a request whose storage call throws a storage error, the user
\* lookup of authenticate included, is answered 500 or 503.
C20_StorageFailureIs5xx ==
  [][\A r \in Reqs :
       (req[r].thrown = "none" /\ req'[r].thrown \in StorageErrorNames)
       => (req'[r].pc = "done" /\ req'[r].status \in {500, 503})]_vars

\* the rules of validateRegistration a register body breaks
RegisterViolations(body) ==
  {m \in {"Email is required", "Password is required", "Role is required",
          "Invalid email format", "Password must be at least 6 characters long",
          "Role must be admin, employer, or candidate"} :
     \/ m = "Email is required" /\ body.email = 0
     \/ m = "Password is required" /\ body.password = ""
     \/ m = "Role is required" /\ body.role = ""
     \/ m = "Invalid email format" /\ body.email = BadEmail
     \/ m = "Password must be at least 6 characters long" /\ body.password = "short"
     \/ m = "Role must be admin, employer, or candidate"
          /\ body.role \notin {"", "admin", "employer", "candidate"}}

\* the required fields an applyForJob body lacks
ApplyViolations(body) ==
  {m \in {"Job ID is required", "Cover letter is required", "Resume is required"} :
     \/ m = "Job ID is required" /\ body.jobId = 0
     \/ m = "Cover letter is required" /\ ~body.coverLetter
     \/ m = "Resume is required" /\ ~body.resume}

\* C21: the 400 response to a register, applyForJob or createJob body that
\* breaks field rules names every rule the body breaks.
C21_AllViolationsListed ==
  [][\A r \in Reqs :
       (Arrives(r) /\ req'[r].pc = "done" /\ req'[r].status = 400)
       => (/\ req'[r].op = "register"
                => RegisterViolations(req'[r].body) \subseteq req'[r].errors
           /\ req'[r].op = "applyForJob"
                => ApplyViolations(req'[r].body) \subseteq req'[r].errors
           /\ req'[r].op = "createJob"
                => req'[r].body.missing \subseteq req'[r].errors)]_vars

\* C22: no step changes the role of a stored user, and the save of banUser
\* and unbanUser changes nothing of the target but isBanned and nothing of
\* any other user.
C22_RoleImmutable ==
  [][/\ \A u \in DOMAIN users \cap DOMAIN users' : users'[u].role = users[u].role
     /\ \A r \in Reqs :
          (Steps(r) /\ req[r].op \in {"banUser", "unbanUser"})
          => (/\ DOMAIN users' = DOMAIN users
              /\ \A u \in DOMAIN users :
                   /\ users'[u].email = users[u].email
                   /\ u # req[r].userId => users'[u] = users[u]
              /\ jobs' = jobs /\ apps' = apps)]_vars

\* a registered employer or candidate was banned and unbanned again and
\* still has the role they registered with
C22_Witness ==
  \E r \in Reqs :
    /\ req[r].pc = "done"
    /\ req[r].op = "unbanUser"
    /\ req[r].status = 200
    /\ req[r].userId \in DOMAIN users
    /\ users[req[r].userId].role \in {"employer", "candidate"}
    /\ ~users[req[r].userId].isBanned
    /\ \E p \in Procs : proc[p].created = 1

\* no Application of an absent Job, no Job of an absent owner
NoOrphans ==
  /\ \A a \in DOMAIN apps : apps[a].jobId \in DOMAIN jobs
  /\ \A j \in DOMAIN jobs : jobs[j].createdBy \in DOMAIN users

\* C23: when a storage call of deleteJob or deleteUser fails, the state the
\* request leaves has no Application whose Job is absent and no Job whose
\* owner is absent.
C23_NoOrphanAfterFailure ==
  [][\A r \in Reqs :
       (/\ Answered(r)
        /\ req[r].op \in {"deleteJob", "deleteUser"}
        /\ req'[r].thrown \in StorageErrorNames)
       => NoOrphans']_vars

\* C24: a deleteJob or deleteUser that is answered without a storage
\* failure, sent for the first time or again after a failed run, leaves
\* nothing of the cascade behind: once the Job is gone no Application has
\* its jobId, once the User is gone no Job has them as createdBy and no
\* Application as candidateId.
C24_RetryConverges ==
  [][\A r \in Reqs :
       (Answered(r) /\ req'[r].thrown = "none")
       => (/\ (req[r].op = "deleteJob" /\ req[r].jobId \notin DOMAIN jobs')
                => \A a \in DOMAIN apps' : apps'[a].jobId # req[r].jobId
           /\ (req[r].op = "deleteUser" /\ req[r].userId \notin DOMAIN users')
                => (/\ \A j \in DOMAIN jobs' : jobs'[j].createdBy # req[r].userId
                    /\ \A a \in DOMAIN apps' :
                         apps'[a].candidateId # req[r].userId))]_vars

\* C25: once the unhandledRejection handler has run, no request arrives at
\* the process while it waits for server.close to complete.
C25_NoServiceAfterFatal ==
  [][\A r \in Reqs :
       Arrives(r) => \E p \in Procs : Open(p)]_vars

\* C26: no step of updateJob changes the createdBy of a stored Job.
C26_CreatedByImmutable ==
  [][\A r \in Reqs :
       (Steps(r) /\ req[r].op = "updateJob")
       => \A j \in DOMAIN jobs \cap DOMAIN jobs' :
            jobs'[j].createdBy = jobs[j].createdBy]_vars

\* C27: no step writes a Job or an Application for a principal who is
\* stored as banned when the step runs.
C27_NoWriteWhileBanned ==
  [][\A r \in Reqs :
       (/\ Steps(r)
        /\ (jobs' # jobs \/ apps' # apps)
        /\ req[r].user \in DOMAIN users)
       => ~users[req[r].user].isBanned]_vars

\* no request is in flight
Quiet == \A r \in Reqs : req[r].pc \in {"idle", "done"}

\* C28: when applyForJob and deleteJob on one job have both finished, no
\* Application references a deleted Job.
C28_NoApplicationOfDeletedJob ==
  Quiet => \A a \in DOMAIN apps : apps[a].jobId \notin DeletedJobs

\* C29: when a createJob or applyForJob of user U and a deleteUser on U
\* have both finished, no Job has a createdBy and no Application a
\* candidateId that is not stored, and no Application references an absent
\* Job.
C29_NoRecordOfDeletedUser ==
  Quiet => (/\ \A j \in DOMAIN jobs : jobs[j].createdBy \in DOMAIN users
            /\ \A a \in DOMAIN apps :
                 /\ apps[a].candidateId \in DOMAIN users
                 /\ apps[a].jobId \in DOMAIN jobs)

\* the statuses of ValidationError, AuthenticationError, AuthorizationError,
\* NotFoundError and ConflictError
GuardStatuses == {400, 401, 403, 404, 409}

\* the positions of a handler that follow one of its writes
AfterWritePcs ==
  {"deleteJob_deleteMany", "deleteUser_deleteJobs", "deleteUser_findByIdAndDelete"}

\* C30: a step of a request that writes a collection, or that is taken
\* after a write of the request, never answers with 400, 401, 403, 404 or
\* 409: every such answer is given before the handler's first write, with
\* Users, Jobs and Applications as they were when the request arrived.
C30_GuardsBeforeWrites ==
  [][\A r \in Reqs :
       (/\ req'[r] # req[r]
        /\ (db' # db \/ req[r].pc \in AfterWritePcs))
       => \/ req'[r].pc \in AfterWritePcs
          \/ req'[r].pc = "done" /\ req'[r].status \notin GuardStatuses]_vars

\* C30 witness: an employer's deleteJob on a Job of somebody else was
\* answered 403 by the handler's own check and the Job is still stored.
C30_Witness ==
  \E r \in Reqs :
    /\ req[r].pc = "done"
    /\ req[r].op = "deleteJob"
    /\ req[r].status = 403
    /\ req[r].role = "employer"
    /\ req[r].jobId \in DOMAIN jobs

=============================================================================
